---- MODULE Spec2Model ----
(***************************************************************************)
(* Model of the text-summarizer backend: the extractive summarizer         *)
(* summarizeText (sentence segmentation, term-frequency scoring, top-K     *)
(* selection, order restoration) and the POST /api/summarize handlers that *)
(* route between the external generative-AI call and summarizeText.        *)
(*                                                                         *)
(* A text is a sequence of characters.  The alphabet below has one letter, *)
(* one sentence terminator and one whitespace character; words are         *)
(* maximal runs of letters, so "x", "xx", "xxx" are three different words. *)
(* Scores are kept in units of the constant idf factor of a one-document   *)
(* corpus (1 + ln(1/2) > 0), so they are the integer sums of term counts.  *)
(* Array.prototype.sort is the stable sort of ES2019.  The three copies of *)
(* summarizeText are the same code and share one model; the three copies   *)
(* of the handler differ in their catch blocks and are told apart by       *)
(* `variant`.  A request body is what the platform hands the handler for   *)
(* application/json: absent, or the parsed object.                         *)
(***************************************************************************)
EXTENDS Integers, Sequences, FiniteSets, TLC

\* ---------------------------------------------------------------- bounds
MaxLen == 9
MaxNum == 2
NumRequests == 2

DefaultNumSentences == 3

Alphabet == {"x", ".", " "}
Texts == UNION {[1..k -> Alphabet] : k \in 0..MaxLen}
NumChoices == (0 - 1)..MaxNum

VARIABLES
    \* summarizeText: arguments, position and locals
    text, numSentences, pc, textSentences, sentenceScores, topSentences, summary,
    \* the request handlers
    genAI, variant, body, hpc, result, res, aiOutcome, calledAI, calledLocal

sumVars == <<text, numSentences, pc, textSentences, sentenceScores, topSentences, summary>>
reqVars == <<genAI, variant, body, hpc, result, res, aiOutcome, calledAI, calledLocal>>
vars == <<text, numSentences, pc, textSentences, sentenceScores, topSentences, summary,
          genAI, variant, body, hpc, result, res, aiOutcome, calledAI, calledLocal>>

\* ------------------------------------------------------- character classes
IsWs(c) == c = " "
IsTerm(c) == c = "."
IsLetter(c) == c = "x"

Min(a, b) == IF a < b THEN a ELSE b
Max(a, b) == IF a > b THEN a ELSE b

\* String.prototype.trim
RECURSIVE TrimLeft(_)
TrimLeft(s) == IF s # <<>> /\ IsWs(Head(s)) THEN TrimLeft(Tail(s)) ELSE s

RECURSIVE TrimRight(_)
TrimRight(s) ==
    IF s # <<>> /\ IsWs(s[Len(s)]) THEN TrimRight(SubSeq(s, 1, Len(s) - 1)) ELSE s

Trim(s) == TrimRight(TrimLeft(s))

\* ------------------------------------------- natural.SentenceTokenizer
\* The sentence pattern is  (?<=\s+|^) .*?[.?!] (\s[.?!])* (?=\s+|$) , matched
\* globally.  Positions are 1-based; an "end" is the position after the match.

\* greedy (\s[.?!])* starting at position e
RECURSIVE PairsEnd(_, _)
PairsEnd(t, e) ==
    IF e + 1 <= Len(t) /\ IsWs(t[e]) /\ IsTerm(t[e + 1]) THEN PairsEnd(t, e + 2) ELSE e

\* lookahead (?=\s+|$) at position e
LookaheadOk(t, e) == e > Len(t) \/ IsWs(t[e])

\* end of the match whose first terminator is at j, 0 when there is none:
\* the greedy pairs, else (backtracking) one pair less, which a space follows
MatchEndAt(t, j) ==
    LET g == PairsEnd(t, j + 1) IN
    IF LookaheadOk(t, g) THEN g
    ELSE IF g > j + 1 THEN g - 2
    ELSE 0

\* lazy .*?[.?!] from start i: the first terminator at or after i that matches
MatchEnd(t, i) ==
    LET good == {j \in i..Len(t) : IsTerm(t[j]) /\ MatchEndAt(t, j) # 0} IN
    IF good = {} THEN 0
    ELSE MatchEndAt(t, CHOOSE j \in good : \A k \in good : j <= k)

\* lookbehind (?<=\s+|^) at position i
LookbehindOk(t, i) == i = 1 \/ IsWs(t[i - 1])

\* text.match(/.../g): the matches from position p on, each one trimmed
RECURSIVE Matches(_, _)
Matches(t, p) ==
    LET starts == {i \in p..Len(t) : LookbehindOk(t, i) /\ MatchEnd(t, i) # 0} IN
    IF starts = {} THEN <<>>
    ELSE LET i == CHOOSE s \in starts : \A k \in starts : s <= k
             e == MatchEnd(t, i)
         IN <<Trim(SubSeq(t, i, e - 1))>> \o Matches(t, e)

\* tokenizer.tokenize(text): no match at all gives the text as one sentence
Tokenize(t) ==
    LET m == Matches(t, 1) IN IF m = <<>> THEN <<t>> ELSE m

\* ------------------------------------------------------- natural.TfIdf
\* the word tokenizer: maximal runs of letters, in order
RECURSIVE WordsFrom(_, _, _)
WordsFrom(t, p, cur) ==
    IF p > Len(t) THEN (IF cur = <<>> THEN <<>> ELSE <<cur>>)
    ELSE IF IsLetter(t[p]) THEN WordsFrom(t, p + 1, Append(cur, t[p]))
    ELSE (IF cur = <<>> THEN <<>> ELSE <<cur>>) \o WordsFrom(t, p + 1, <<>>)

Words(t) == WordsFrom(t, 1, <<>>)

\* tf(term, document): occurrences of the term in the document
Tf(term, doc) == Cardinality({i \in 1..Len(doc) : doc[i] = term})

RECURSIVE SumTf(_, _)
SumTf(terms, doc) ==
    IF terms = <<>> THEN 0 ELSE Tf(Head(terms), doc) + SumTf(Tail(terms), doc)

\* tfidf.tfidf(sentence, 0) after tfidf.addDocument(text)
TfIdfScore(sentence, document) == SumTf(Words(sentence), Words(document))

\* ------------------------------------------------------- summarizeText
\* textSentences.length <= numSentences
IsShortMutant(len, n) == len < n
IsShort(len, n) == len <= n

\* textSentences.map((sentence, index) => ({ sentence, score, index }))
SentenceScores(t, ts) ==
    [i \in 1..Len(ts) |->
        [sentence |-> ts[i], score |-> TfIdfScore(ts[i], t), index |-> i - 1]]

\* the comparators handed to Array.prototype.sort
ByScoreDescTiesLast(a, b) == IF b.score > a.score THEN 1 ELSE 0 - 1
ByScoreAsc(a, b) == a.score - b.score
ByScoreDesc(a, b) == b.score - a.score

ByIndexNone(a, b) == 0
ByIndexAsc(a, b) == a.index - b.index

\* Array.prototype.sort is stable: an element goes before the first element
\* the comparator puts it strictly before, and after the ones it ties with
RECURSIVE InsertByScore(_, _)
InsertByScore(s, x) ==
    IF s = <<>> THEN <<x>>
    ELSE IF ByScoreDesc(x, Head(s)) < 0 THEN <<x>> \o s
    ELSE <<Head(s)>> \o InsertByScore(Tail(s), x)

RECURSIVE SortByScore(_)
SortByScore(s) ==
    IF s = <<>> THEN <<>>
    ELSE InsertByScore(SortByScore(SubSeq(s, 1, Len(s) - 1)), s[Len(s)])

RECURSIVE InsertByIndex(_, _)
InsertByIndex(s, x) ==
    IF s = <<>> THEN <<x>>
    ELSE IF ByIndexAsc(x, Head(s)) < 0 THEN <<x>> \o s
    ELSE <<Head(s)>> \o InsertByIndex(Tail(s), x)

RECURSIVE SortByIndex(_)
SortByIndex(s) ==
    IF s = <<>> THEN <<>>
    ELSE InsertByIndex(SortByIndex(SubSeq(s, 1, Len(s) - 1)), s[Len(s)])

\* Array.prototype.slice(0, n): a negative end counts from the end
SliceOneMore(s, n) ==
    SubSeq(s, 1, IF n < 0 THEN Max(Len(s) + n + 1, 0) ELSE Min(n + 1, Len(s)))
Slice(s, n) ==
    SubSeq(s, 1, IF n < 0 THEN Max(Len(s) + n, 0) ELSE Min(n, Len(s)))

\* sort by score, slice(0, numSentences), sort by index
TopSentences(scored, n) == SortByIndex(Slice(SortByScore(scored), n))

\* .map(item => item.sentence).join(' ')
RECURSIVE JoinSentences(_)
JoinSentences(items) ==
    IF items = <<>> THEN <<>>
    ELSE IF Len(items) = 1 THEN items[1].sentence
    ELSE items[1].sentence \o <<" ">> \o JoinSentences(Tail(items))

\* summarizeText(text, numSentences) as a function of its arguments
SummarizeText(t, n) ==
    LET ts == Tokenize(t) IN
    IF IsShort(Len(ts), n) THEN t
    ELSE JoinSentences(TopSentences(SentenceScores(t, ts), n))

\* the short-circuit return of summarizeText
ReturnText ==
    /\ pc = "call"
    /\ LET ts == Tokenize(text) IN
        /\ IsShort(Len(ts), numSentences)
        /\ textSentences' = ts
        /\ summary' = text
    /\ pc' = "returnText"
    /\ UNCHANGED <<text, numSentences, sentenceScores, topSentences>>
    /\ UNCHANGED reqVars

\* the selection path of summarizeText
ReturnTop ==
    /\ pc = "call"
    /\ LET ts == Tokenize(text)
           scored == SentenceScores(text, ts)
           top == TopSentences(scored, numSentences)
       IN
        /\ ~IsShort(Len(ts), numSentences)
        /\ textSentences' = ts
        /\ sentenceScores' = scored
        /\ topSentences' = top
        /\ summary' = JoinSentences(top)
    /\ pc' = "returnTop"
    /\ UNCHANGED <<text, numSentences>>
    /\ UNCHANGED reqVars

\* ------------------------------------------------- the request handlers
Requests == 1..NumRequests

\* the three copies of the handler: src/unnamed/part_000, and in
\* src/api/index.js handleSummarize and the second module.exports
Variants == {"part_000", "handleSummarize", "inline"}

Methods == {"absent", "auto", "gemini", "tfidf", "other"}

ShortText == <<"x", ".", " ", "x", ".">>
LongText ==
    <<"x", "x", ".", " ", "x", ".", " ", "x", " ", "x", "x", ".", " ", "x", " ", "x", ".">>
RequestTexts == {<<>>, ShortText, LongText}

\* req.body as the platform hands it over: absent, or the parsed JSON object
NoBody == [present |-> FALSE, text |-> <<>>, method |-> "absent"]
Bodies ==
    {NoBody} \cup {[present |-> TRUE, text |-> t, method |-> m] : t \in RequestTexts, m \in Methods}

\* what response.text() of the external AI can be
AIReplies == {<<"x", ".">>, <<"x", "x", ".">>}

NoSummary == <<"#">>
NoOutcome == [kind |-> "none", reply |-> NoSummary]
Failed == [kind |-> "failed", reply |-> NoSummary]
Replied(s) == [kind |-> "reply", reply |-> s]

NoResponse == [status |-> 0, summary |-> NoSummary, method |-> "none"]
ErrorResponse(code) == [status |-> code, summary |-> NoSummary, method |-> "none"]
OkResponse(s, m) == [status |-> 200, summary |-> s, method |-> m]

\* const { text, method = 'auto' } = body
MethodOf(b) == IF b.method = "absent" THEN "auto" ELSE b.method

\* method === 'gemini' && genAI
UseGeminiUnlessTfidf(method, client) == method # "tfidf" /\ client
UseGemini(method, client) == method = "gemini" /\ client

\* the local variable `result` of one invocation of the handler
StoreResultShared(results, r, reply) == [q \in Requests |-> reply]
StoreResult(results, r, reply) == [results EXCEPT ![r] = reply]

\* a POST /api/summarize request arrives
Receive(r, b) ==
    /\ hpc[r] = "idle"
    /\ body' = [body EXCEPT ![r] = b]
    /\ hpc' = [hpc EXCEPT ![r] = "received"]
    /\ UNCHANGED <<genAI, variant, result, res, aiOutcome, calledAI, calledLocal>>
    /\ UNCHANGED sumVars

\* the handler up to its first await or its response
Handle(r) ==
    /\ hpc[r] = "received"
    /\ LET b == body[r] IN
        IF ~b.present THEN
            \* part_000 destructures req.body and its catch reads req.body.text
            /\ res' = [res EXCEPT ![r] =
                          ErrorResponse(IF variant = "part_000" THEN 500 ELSE 400)]
            /\ hpc' = [hpc EXCEPT ![r] = "done"]
            /\ UNCHANGED <<calledAI, calledLocal>>
        ELSE IF b.text = <<>> THEN
            /\ res' = [res EXCEPT ![r] = ErrorResponse(400)]
            /\ hpc' = [hpc EXCEPT ![r] = "done"]
            /\ UNCHANGED <<calledAI, calledLocal>>
        ELSE IF UseGemini(MethodOf(b), genAI) THEN
            /\ calledAI' = [calledAI EXCEPT ![r] = TRUE]
            /\ hpc' = [hpc EXCEPT ![r] = "generateContent"]
            /\ UNCHANGED <<res, calledLocal>>
        ELSE
            /\ calledLocal' = [calledLocal EXCEPT ![r] = TRUE]
            /\ res' = [res EXCEPT ![r] =
                          OkResponse(SummarizeText(b.text, DefaultNumSentences), "tfidf")]
            /\ hpc' = [hpc EXCEPT ![r] = "done"]
            /\ UNCHANGED calledAI
    /\ UNCHANGED <<genAI, variant, body, result, aiOutcome>>
    /\ UNCHANGED sumVars

\* await model.generateContent(prompt) resolves
GenerateResolve(r, reply) ==
    /\ hpc[r] = "generateContent"
    /\ result' = StoreResult(result, r, reply)
    /\ aiOutcome' = [aiOutcome EXCEPT ![r] = Replied(reply)]
    /\ hpc' = [hpc EXCEPT ![r] = "response"]
    /\ UNCHANGED <<genAI, variant, body, res, calledAI, calledLocal>>
    /\ UNCHANGED sumVars

\* await result.response resolves, response.text() is the summary
ResponseResolve(r) ==
    /\ hpc[r] = "response"
    /\ res' = [res EXCEPT ![r] =
                  OkResponse(result[r],
                             IF UseGemini(MethodOf(body[r]), genAI) THEN "gemini" ELSE "tfidf")]
    /\ hpc' = [hpc EXCEPT ![r] = "done"]
    /\ UNCHANGED <<genAI, variant, body, result, aiOutcome, calledAI, calledLocal>>
    /\ UNCHANGED sumVars

\* the AI call rejects, or response.text() throws: the enclosing catch runs
AIFail(r) ==
    /\ hpc[r] \in {"generateContent", "response"}
    /\ aiOutcome' = [aiOutcome EXCEPT ![r] = Failed]
    /\ IF variant = "part_000" THEN
            \* catch: summarizeText(req.body.text), 200, method 'tfidf'
            /\ calledLocal' = [calledLocal EXCEPT ![r] = TRUE]
            /\ res' = [res EXCEPT ![r] =
                          OkResponse(SummarizeText(body[r].text, DefaultNumSentences), "tfidf")]
       ELSE
            \* handleSummarize: catch answers 500.  Second module.exports: `body`
            \* is declared inside the try block, the catch's read of it throws
            \* a ReferenceError and the inner catch answers 500
            /\ res' = [res EXCEPT ![r] = ErrorResponse(500)]
            /\ UNCHANGED calledLocal
    /\ hpc' = [hpc EXCEPT ![r] = "done"]
    /\ UNCHANGED <<genAI, variant, body, result, calledAI>>
    /\ UNCHANGED sumVars

\* ---------------------------------------------------------- specifications
IdleRequests ==
    /\ body = [r \in Requests |-> NoBody]
    /\ hpc = [r \in Requests |-> "idle"]
    /\ result = [r \in Requests |-> NoSummary]
    /\ res = [r \in Requests |-> NoResponse]
    /\ aiOutcome = [r \in Requests |-> NoOutcome]
    /\ calledAI = [r \in Requests |-> FALSE]
    /\ calledLocal = [r \in Requests |-> FALSE]

NoCall ==
    /\ textSentences = <<>>
    /\ sentenceScores = <<>>
    /\ topSentences = <<>>
    /\ summary = NoSummary

\* one call summarizeText(text, numSentences)
Init ==
    /\ text \in Texts
    /\ numSentences \in NumChoices
    /\ pc = "call"
    /\ NoCall
    /\ genAI = FALSE
    /\ variant = "part_000"
    /\ IdleRequests

Next == ReturnText \/ ReturnTop

Spec == Init /\ [][Next]_vars

\* the module is loaded (genAI is set from the environment), requests arrive
HandlerInit ==
    /\ genAI \in BOOLEAN
    /\ variant \in Variants
    /\ IdleRequests
    /\ text = <<>>
    /\ numSentences = DefaultNumSentences
    /\ pc = "off"
    /\ NoCall

HandlerNext ==
    \E r \in Requests :
        \/ \E b \in Bodies : Receive(r, b)
        \/ Handle(r)
        \/ \E reply \in AIReplies : GenerateResolve(r, reply)
        \/ ResponseResolve(r)
        \/ AIFail(r)

HandlerSpec == HandlerInit /\ [][HandlerNext]_vars

\* ------------------------------------------------------------- properties
Returned == pc \in {"returnText", "returnTop"}
SelectedIdx == {topSentences[i].index : i \in 1..Len(topSentences)}

\* C1: for numSentences >= 1 the summary consists of exactly
\* min(numSentences, number of sentences) sentences of the input: the whole
\* text when it has that many, else the join of that many distinct sentences.
BoundedOutput ==
    (Returned /\ numSentences >= 1) =>
        LET k == Min(numSentences, Len(textSentences)) IN
        IF pc = "returnText"
        THEN summary = text /\ Len(textSentences) = k
        ELSE /\ Len(topSentences) = k
             /\ Cardinality(SelectedIdx) = k
             /\ \A i \in 1..Len(topSentences) :
                    /\ topSentences[i].index \in 0..(Len(textSentences) - 1)
                    /\ topSentences[i].sentence = textSentences[topSentences[i].index + 1]
             /\ summary = JoinSentences(topSentences)

BoundedOutputWitness ==
    /\ pc = "returnTop"
    /\ numSentences = 2
    /\ Len(textSentences) = 3
    /\ Len(topSentences) = 2

\* C2: a text that segments into at most numSentences sentences is returned
\* itself, character for character.
PassThrough ==
    (Returned /\ Len(Tokenize(text)) <= numSentences) => summary = text

PassThroughWitness ==
    /\ pc = "returnText"
    /\ Len(textSentences) = 2
    /\ numSentences = 2
    /\ summary = text
    /\ JoinSentences(SentenceScores(text, textSentences)) # text

\* C3: on the selection path the chosen sentences carry indices of the
\* document's sentences and stand in strictly increasing index order.
OrderPreserved ==
    pc = "returnTop" =>
        /\ \A i \in 1..Len(topSentences) :
              /\ topSentences[i].index \in 0..(Len(textSentences) - 1)
              /\ topSentences[i].sentence = textSentences[topSentences[i].index + 1]
        /\ \A i \in 1..(Len(topSentences) - 1) :
              topSentences[i].index < topSentences[i + 1].index
        /\ summary = JoinSentences(topSentences)

OrderPreservedWitness ==
    /\ pc = "returnTop"
    /\ Len(topSentences) >= 2
    /\ topSentences[1].score < topSentences[2].score

\* C4: of two sentences with equal score of which only one is selected, the
\* selected one is the one with the lower original index.
TieBreakLowestIndex ==
    pc = "returnTop" =>
        \A i, j \in 1..Len(sentenceScores) :
            (/\ i < j
             /\ sentenceScores[i].score = sentenceScores[j].score
             /\ sentenceScores[j].index \in SelectedIdx)
            => sentenceScores[i].index \in SelectedIdx

TieBreakWitness ==
    /\ pc = "returnTop"
    /\ numSentences >= 1
    /\ \E i, j \in 1..Len(sentenceScores) :
          /\ i < j
          /\ sentenceScores[i].score = sentenceScores[j].score
          /\ sentenceScores[i].index \in SelectedIdx
          /\ sentenceScores[j].index \notin SelectedIdx

\* C5: a call with numSentences <= 0 is rejected, it never returns a summary.
RejectsNonPositive == numSentences <= 0 => ~Returned

\* C10: with more than numSentences sentences and numSentences >= 1, every
\* selected sentence scores at least as high as every sentence left out.
HighestSelected ==
    (pc = "returnTop" /\ numSentences >= 1) =>
        \A i, j \in 1..Len(sentenceScores) :
            (/\ sentenceScores[i].index \in SelectedIdx
             /\ sentenceScores[j].index \notin SelectedIdx)
            => sentenceScores[i].score >= sentenceScores[j].score

HighestSelectedWitness ==
    /\ pc = "returnTop"
    /\ numSentences >= 1
    /\ \E i, j \in 1..Len(sentenceScores) :
          /\ j < i
          /\ sentenceScores[i].index \in SelectedIdx
          /\ sentenceScores[j].index \notin SelectedIdx
          /\ sentenceScores[i].score > sentenceScores[j].score

HasText(r) == body[r].present /\ body[r].text # <<>>

\* C6: when the AI call of a request fails, the handler runs the local
\* summarizer on the request's text and answers 200 with that summary and
\* method 'tfidf'.
AIFailureFallsBack ==
    \A r \in Requests :
        (hpc[r] = "done" /\ aiOutcome[r].kind = "failed") =>
            /\ calledLocal[r]
            /\ res[r] = OkResponse(SummarizeText(body[r].text, DefaultNumSentences), "tfidf")

\* C7: for a request with non-empty text the AI is called only when the
\* method flag is 'gemini' and the client exists; otherwise the local
\* summarizer produces the summary and the response's method is 'tfidf'.
RoutingPolicy ==
    \A r \in Requests :
        HasText(r) =>
            /\ calledAI[r] => (body[r].method = "gemini" /\ genAI)
            /\ (hpc[r] = "done" /\ ~(body[r].method = "gemini" /\ genAI)) =>
                  /\ ~calledAI[r]
                  /\ calledLocal[r]
                  /\ res[r] = OkResponse(SummarizeText(body[r].text, DefaultNumSentences),
                                         "tfidf")

RoutingPolicyWitness ==
    \E r \in Requests :
        /\ genAI
        /\ hpc[r] = "done"
        /\ body[r].present
        /\ body[r].text = LongText
        /\ body[r].method = "auto"
        /\ res[r].method = "tfidf"
        /\ res[r].summary # LongText

\* the response a request gets, as a function of the deployed handler, the
\* client, the request's own body and the AI outcome of that request
ExpectedResponse(v, client, b, outcome) ==
    IF ~b.present THEN ErrorResponse(IF v = "part_000" THEN 500 ELSE 400)
    ELSE IF b.text = <<>> THEN ErrorResponse(400)
    ELSE IF b.method = "gemini" /\ client THEN
        IF outcome.kind = "reply" THEN OkResponse(outcome.reply, "gemini")
        ELSE IF v = "part_000"
             THEN OkResponse(SummarizeText(b.text, DefaultNumSentences), "tfidf")
             ELSE ErrorResponse(500)
    ELSE OkResponse(SummarizeText(b.text, DefaultNumSentences), "tfidf")

OwnStateOnly(r) ==
    \A q \in Requests \ {r} :
        /\ body'[q] = body[q]
        /\ hpc'[q] = hpc[q]
        /\ result'[q] = result[q]
        /\ res'[q] = res[q]
        /\ aiOutcome'[q] = aiOutcome[q]
        /\ calledAI'[q] = calledAI[q]
        /\ calledLocal'[q] = calledLocal[q]

\* C8: under any interleaving of concurrent requests, each response is
\* determined by the request's own body and its own AI outcome, and a step
\* of one request changes no other request's state nor the shared client.
RequestIsolation ==
    /\ [](\A r \in Requests :
            hpc[r] = "done" =>
                res[r] = ExpectedResponse(variant, genAI, body[r], aiOutcome[r]))
    /\ [][genAI' = genAI /\ \E r \in Requests : OwnStateOnly(r)]_vars

RequestIsolationWitness ==
    \E r, q \in Requests :
        /\ r # q
        /\ hpc[r] = "done"
        /\ res[r].method = "gemini"
        /\ hpc[q] = "response"
        /\ result[q] # res[r].summary

\* C11: a request whose body is absent or carries no non-empty text is
\* answered with status 400, and neither the external AI nor the local
\* summarizer is invoked for it.
MissingTextRejected ==
    \A r \in Requests :
        (hpc[r] = "done" /\ ~HasText(r)) =>
            /\ res[r].status = 400
            /\ ~calledAI[r]
            /\ ~calledLocal[r]

====
